---------------------------- MODULE Spec2Model ----------------------------
(***************************************************************************)
(* Hourly energy dispatch of a prosumer (PV, battery, flexible load):      *)
(* the parameter adapters, the formulation built by                        *)
(* EnergySystemModel.build_and_solve_standardized, the solve, the result   *)
(* extraction, and the scenario loop of Runner with its reporting.         *)
(*                                                                         *)
(* Number representation (TLC has integers only):                          *)
(*   energy and power      integer kWh / kW                                *)
(*   scaling multipliers   plain integers, except the two tariff           *)
(*                         multipliers, held in tenths (10 = 1.0, 1 = .10) *)
(*   tariffs               deci-DKK out of the adapters, centi-DKK after   *)
(*                         the perturbation step (multiplier in tenths)    *)
(*   day-ahead price       DKK out of the adapter                          *)
(*   objective, profit     milli-DKK (epsilon = 1e-3 DKK is 1)             *)
(*   efficiencies          rationals [num, den]                            *)
(*   indicators y, z       multiples of 1/ZDen in [0,1]                    *)
(* Python lists are sequences: hour t of the code is index t+1.            *)
(***************************************************************************)
EXTENDS Integers, Sequences, FiniteSets, TLC

(***************************************************************************)
(* Bounds of the model                                                     *)
(***************************************************************************)
MaxHours == 2          \* horizons 1..MaxHours, length of the stored series
MaxFlow == 2           \* grid of the solver: every flow in 0..MaxFlow
MaxCap == 2            \* grid of the solver: capacity and soc in 0..MaxCap
MaxTie == 1            \* tie-break behaviours of the solver: 0..MaxTie
MaxScenarios == 2      \* entries of scenario_files

(***************************************************************************)
(* Python values: None, numbers, lists; dict.get; truthiness               *)
(***************************************************************************)
NoneV == [tag |-> "none"]
Num(n) == [tag |-> "num", val |-> n]
Lst(s) == [tag |-> "list", val |-> s]
Dict(d) == [tag |-> "dict", val |-> d]
IsNone(v) == v.tag = "none"
Truthy(v) ==
  CASE v.tag = "none" -> FALSE
    [] v.tag = "num" -> v.val # 0
    [] v.tag = "list" -> Len(v.val) > 0
    [] v.tag = "dict" -> DOMAIN v.val # {}
DictGet(d, k, default) == IF k \in DOMAIN d THEN d[k] ELSE default
EmptyDict == [k \in {} |-> 0]
Inf == 1000000
One == [num |-> 1, den |-> 1]

\* e is evaluated once and Op applied to its value
With(e, Op(_)) == CHOOSE v \in {Op(x) : x \in {e}} : TRUE

RECURSIVE SumFrom(_, _)
SumFrom(s, i) == IF i > Len(s) THEN 0 ELSE s[i] + SumFrom(s, i + 1)
SumSeq(s) == With(s, LAMBDA q : SumFrom(q, 1))
Min(a, b) == IF a <= b THEN a ELSE b

(***************************************************************************)
(* to_list: a list is scaled element-wise and keeps its own length, a      *)
(* scalar is broadcast to num_hours entries, None gives num_hours Nones.   *)
(***************************************************************************)
to_list(v, num_hours, scale) ==
  IF v.tag = "list"
  THEN [i \in 1..Len(v.val) |-> v.val[i] * scale]
  ELSE IF v.tag = "num"
       THEN [i \in 1..num_hours |-> v.val * scale]
       ELSE [i \in 1..num_hours |-> NoneV]

(***************************************************************************)
(* Consumer adapters.  c = [usage_preference, appliance_params, scale]     *)
(***************************************************************************)
get_minimum_energy_requirement(c) ==
  LET min == c.usage_preference[1]["load_preferences"][1]["min_total_energy_per_day_hour_equivalent"]
  IN IF ~Truthy(min) THEN 0 ELSE min.val * DictGet(c.scale, "load_scale", 1)

get_maximum_energy_requirement(c) ==
  LET max == c.usage_preference[1]["load_preferences"][1]["max_total_energy_per_day_hour_equivalent"]
  IN IF ~Truthy(max) THEN Inf ELSE max.val * DictGet(c.scale, "load_scale", 1)

get_reference_profile(c, num_hours) ==
  LET v == DictGet(c.usage_preference[1]["load_preferences"][1], "hourly_profile_ratio", NoneV)
  IN to_list(v, num_hours, DictGet(c.scale, "reference_profile_scale", 1))

get_max_load_per_hour(c) == c.appliance_params["load"][1]["max_load_kWh_per_hour"]

\* faulty variant: an absent storage entry counts as one unit of capacity
get_storage_capacity_unit(c) ==
  LET v == DictGet(c.appliance_params, "storage", Lst(<<EmptyDict>>))
      w == IF Truthy(v) THEN DictGet(v.val[1], "storage_capacity_kWh", 0) ELSE 1
  IN DictGet(c.scale, "storage_capacity_scale", 1) * w

get_storage_capacity(c) ==
  LET v == DictGet(c.appliance_params, "storage", Lst(<<EmptyDict>>))
      w == IF Truthy(v) THEN DictGet(v.val[1], "storage_capacity_kWh", 0) ELSE 0
  IN DictGet(c.scale, "storage_capacity_scale", 1) * w

get_battery_price_coeff(c) ==
  LET v == DictGet(c.appliance_params, "storage", Lst(<<EmptyDict>>))
      w == IF Truthy(v) THEN DictGet(v.val[1], "battery_price_coeff", 1) ELSE 1
  IN w * DictGet(c.scale, "battery_price_coeff_scale", 1)

get_max_charging_power(c) ==
  LET v == DictGet(c.appliance_params, "storage", Lst(<<EmptyDict>>))
      w == IF Truthy(v) THEN DictGet(v.val[1], "max_charging_power_ratio", 0) ELSE 0
  IN DictGet(c.scale, "max_charge_power_scale", 1) * w

get_max_discharging_power(c) ==
  LET v == DictGet(c.appliance_params, "storage", Lst(<<EmptyDict>>))
      w == IF Truthy(v) THEN DictGet(v.val[1], "max_discharging_power_ratio", 0) ELSE 0
  IN DictGet(c.scale, "max_discharge_power_scale", 1) * w

get_charging_efficiency(c) ==
  LET v == DictGet(c.appliance_params, "storage", NoneV)
  IN IF Truthy(v) THEN DictGet(v.val[1], "charging_efficiency", One) ELSE One

get_discharging_efficiency(c) ==
  LET v == DictGet(c.appliance_params, "storage", NoneV)
  IN IF Truthy(v) THEN DictGet(v.val[1], "discharging_efficiency", One) ELSE One

get_initial_soc(c) ==
  LET v == DictGet(c.usage_preference[1], "storage_preferences", NoneV)
      w == IF Truthy(v) THEN DictGet(v.val[1], "initial_soc_ratio", 0) ELSE 0
  IN DictGet(c.scale, "initial_soc_ratio", 1) * w

get_final_soc(c) ==
  LET v == DictGet(c.usage_preference[1], "storage_preferences", NoneV)
      w == IF Truthy(v) THEN DictGet(v.val[1], "final_soc_ratio", 0) ELSE 0
  IN DictGet(c.scale, "final_soc_ratio", 1) * w

(***************************************************************************)
(* DER adapters.  d = [der_production, appliance_params, scale]            *)
(***************************************************************************)
get_pv_profile(d, num_hours) ==
  LET v == DictGet(d.der_production[1], "hourly_profile_ratio", NoneV)
  IN to_list(v, num_hours, DictGet(d.scale, "pv_scale", 1))

get_max_pv_capacity(d) == d.appliance_params["DER"][1]["max_power_kW"]

(***************************************************************************)
(* Grid adapters.  g = [bus_params, scale].  The tariff multipliers are    *)
(* in tenths: the defaults 1.0 and .10 of the code are 10 and 1.           *)
(***************************************************************************)
get_import_tariff(g, num_hours) ==
  LET v == DictGet(g.bus_params[1], "import_tariff_DKK/kWh", NoneV)
  IN to_list(v, num_hours, DictGet(g.scale, "import_tariff_scale", 10))

get_export_tariff(g, num_hours) ==
  LET v == DictGet(g.bus_params[1], "export_tariff_DKK/kWh", NoneV)
  IN to_list(v, num_hours, DictGet(g.scale, "export_tariff_scale", 1))

get_energy_price(g, num_hours) ==
  LET v == DictGet(g.bus_params[1], "energy_price_DKK_per_kWh", NoneV)
  IN to_list(v, num_hours, DictGet(g.scale, "price_scale", 1))

get_max_import(g) == g.bus_params[1]["max_import_kW"] * DictGet(g.scale, "max_import_kW", 1)

get_max_export(g) == g.bus_params[1]["max_export_kW"] * DictGet(g.scale, "max_export_kW", 1)

(***************************************************************************)
(* numpy's global generator: a deterministic stream whose position is      *)
(* process-wide state.  seed(s) fixes the position, uniform(0.5, 1.5, n)   *)
(* returns the next n multipliers (in tenths) and advances the position.   *)
(***************************************************************************)
RngMod == 2
RngOut == <<5, 15>>
np_random_seed(r, s) == s % RngMod
np_random_uniform(r, n) ==
  [val |-> [i \in 1..n |-> RngOut[((r + i - 1) % RngMod) + 1]],
   state |-> (r + n) % RngMod]

(***************************************************************************)
(* Parameters of build_and_solve_standardized.                             *)
(* m = [consumer, der, grid], a = [question, num_hours, vary_tariff,       *)
(* fixed_da], r = position of the global generator at the call.            *)
(***************************************************************************)
ZDen == 2
big_m == 1000
epsilon == 1
MilliPerDKK == 1000
MilliPerCenti == 10
CentiPerDKK == 100
Unperturbed == 10
DeciPerDKK == 10
Limit2b == 17

\* faulty variant: the generator is not re-seeded
Seeded_not(r) == r

Seeded(r) == np_random_seed(r, 42)

Perturbation(a, r) ==
  IF a.vary_tariff
  THEN np_random_uniform(Seeded(r), a.num_hours)
  ELSE [val |-> [i \in 1..a.num_hours |-> Unperturbed], state |-> r]

P_pv_of(m, a) ==
  LET prof == get_pv_profile(m.der, a.num_hours)
  IN [i \in 1..Len(prof) |-> get_max_pv_capacity(m.der) * prof[i]]

phi_imp_of(m, a, r) ==
  LET raw == get_import_tariff(m.grid, a.num_hours)
  IN [t \in 1..a.num_hours |-> raw[t] * Perturbation(a, r).val[t]]

phi_exp_of(m, a, r) ==
  LET raw == get_export_tariff(m.grid, a.num_hours)
  IN [t \in 1..a.num_hours |-> raw[t] * Perturbation(a, r).val[t]]

da_price_of(m, a) ==
  IF Truthy(a.fixed_da) /\ a.fixed_da.tag = "num"
  THEN [t \in 1..a.num_hours |-> a.fixed_da.val]
  ELSE get_energy_price(m.grid, a.num_hours)

P_down_of(m, a) ==
  IF a.question = "question_2b" THEN Min(get_max_import(m.grid), Limit2b)
  ELSE get_max_import(m.grid)

\* faulty variant: the export limit is never capped
P_up_uncapped(m, a) == get_max_export(m.grid)

P_up_of(m, a) ==
  IF a.question = "question_2b" THEN Min(get_max_export(m.grid), Limit2b)
  ELSE get_max_export(m.grid)

CapIsVariable(a) == a.question \in {"question_2b"}

Params(m, a, r) ==
  [question |-> a.question,
   num_hours |-> a.num_hours,
   P_pv |-> P_pv_of(m, a),
   phi_imp |-> phi_imp_of(m, a, r),
   phi_exp |-> phi_exp_of(m, a, r),
   da_price |-> da_price_of(m, a),
   P_down |-> P_down_of(m, a),
   P_up |-> P_up_of(m, a),
   P_L_max |-> get_max_load_per_hour(m.consumer),
   battery_price_coeff |-> get_battery_price_coeff(m.consumer),
   P_bat_cap |-> get_storage_capacity(m.consumer),
   P_bat_ch_max |-> get_max_charging_power(m.consumer) * get_storage_capacity(m.consumer),
   P_bat_dis_max |-> get_max_discharging_power(m.consumer) * get_storage_capacity(m.consumer),
   P_bat_ch_eff |-> get_charging_efficiency(m.consumer),
   P_bat_dis_eff |-> get_discharging_efficiency(m.consumer),
   P_min |-> get_minimum_energy_requirement(m.consumer) * get_max_load_per_hour(m.consumer),
   P_max |-> get_maximum_energy_requirement(m.consumer) * get_max_load_per_hour(m.consumer),
   reference_profile |->
     IF a.question = "question_1a" THEN <<>>
     ELSE LET ref == get_reference_profile(m.consumer, a.num_hours)
          IN [i \in 1..Len(ref) |-> ref[i] * get_max_load_per_hour(m.consumer)],
   discomfort_cost_per_kWh |-> DictGet(m.consumer, "discomfort_cost_per_kWh", 1),
   initial_soc |-> get_initial_soc(m.consumer),
   final_soc |-> get_final_soc(m.consumer)]

(***************************************************************************)
(* Exceptions raised while the parameters are read and the formulation is  *)
(* built, in the order of the code.  A series is either a list of numbers  *)
(* of its own length or num_hours Nones: an index beyond a list raises     *)
(* IndexError, arithmetic on None raises TypeError, a requirement key that *)
(* is not in load_preferences raises KeyError.                             *)
(***************************************************************************)
RECURSIVE FirstOf(_)
FirstOf(errs) ==
  IF Len(errs) = 0 THEN "none"
  ELSE IF errs[1] # "none" THEN errs[1]
  ELSE FirstOf(Tail(errs))

\* [s[t] ... for t in T] with arithmetic on the elements, s = to_list(v, ...)
IndexedOver(v, num_hours) ==
  IF v.tag = "list"
  THEN IF Len(v.val) < num_hours THEN "IndexError" ELSE "none"
  ELSE IF v.tag = "none" THEN "TypeError"
  ELSE "none"

pv_profile_source(d) == DictGet(d.der_production[1], "hourly_profile_ratio", NoneV)
import_tariff_source(g) == DictGet(g.bus_params[1], "import_tariff_DKK/kWh", NoneV)
export_tariff_source(g) == DictGet(g.bus_params[1], "export_tariff_DKK/kWh", NoneV)
energy_price_source(g) == DictGet(g.bus_params[1], "energy_price_DKK_per_kWh", NoneV)
reference_profile_source(c) ==
  DictGet(c.usage_preference[1]["load_preferences"][1], "hourly_profile_ratio", NoneV)

P_pv_raises(m, a) ==
  IF pv_profile_source(m.der).tag = "none" THEN "TypeError" ELSE "none"

vary_tariff_raises(m, a) ==
  IF a.vary_tariff
  THEN FirstOf(<<IndexedOver(import_tariff_source(m.grid), a.num_hours),
                 IndexedOver(export_tariff_source(m.grid), a.num_hours)>>)
  ELSE "none"

requirement_raises(c) ==
  LET prefs == c.usage_preference[1]["load_preferences"][1]
  IN IF /\ "min_total_energy_per_day_hour_equivalent" \in DOMAIN prefs
        /\ "max_total_energy_per_day_hour_equivalent" \in DOMAIN prefs
     THEN "none" ELSE "KeyError"

reference_profile_raises(m, a) ==
  IF a.question = "question_1a" THEN "none"
  ELSE IF reference_profile_source(m.consumer).tag = "none" THEN "TypeError"
  ELSE "none"

objective_raises(m, a) ==
  FirstOf(<<IF Truthy(a.fixed_da) /\ a.fixed_da.tag = "num" THEN "none"
            ELSE IndexedOver(energy_price_source(m.grid), a.num_hours),
            IF a.vary_tariff THEN "none"
            ELSE IndexedOver(export_tariff_source(m.grid), a.num_hours),
            IF a.vary_tariff THEN "none"
            ELSE IndexedOver(import_tariff_source(m.grid), a.num_hours),
            IF a.question = "question_1a" THEN "none"
            ELSE IndexedOver(reference_profile_source(m.consumer), a.num_hours)>>)

pv_lim_raises(m, a) == IndexedOver(pv_profile_source(m.der), a.num_hours)

BuildError(m, a) ==
  FirstOf(<<P_pv_raises(m, a), vary_tariff_raises(m, a),
            requirement_raises(m.consumer), reference_profile_raises(m, a),
            objective_raises(m, a), pv_lim_raises(m, a)>>)

(***************************************************************************)
(* Variables of the formulation.  Every addVar has lb = 0; y and z have    *)
(* ub = 1.  h is the record of one hour's flows, soc and cap are the state *)
(* of charge of that hour and the value of p_bat_cap.                      *)
(***************************************************************************)
FlowVars ==
  {[p_import |-> i, p_export |-> e, p_load |-> l, p_pv_actual |-> p,
    p_bat_charge |-> c, p_bat_discharge |-> d, z |-> z] :
     i \in 0..MaxFlow, e \in 0..MaxFlow, l \in 0..MaxFlow, p \in 0..MaxFlow,
     c \in 0..MaxFlow, d \in 0..MaxFlow, z \in 0..ZDen}

\* The grid of the solver has the resolution of the power data: the values of
\* the variables are multiples of the greatest common divisor of the grid
\* limits, the maximum load and the available PV.
RECURSIVE Gcd(_, _)
Gcd(a, b) == IF b = 0 THEN a ELSE Gcd(b, a % b)

RECURSIVE GcdSeq(_)
GcdSeq(s) == IF Len(s) = 0 THEN 0 ELSE Gcd(Head(s), GcdSeq(Tail(s)))

Resolution(F) ==
  With(GcdSeq(<<F.P_down, F.P_up, F.P_L_max>> \o SubSeq(F.P_pv, 1, F.num_hours)),
       LAMBDA g : IF g = 0 THEN 1 ELSE g)

OnGrid(h, q) ==
  [p_import |-> q * h.p_import, p_export |-> q * h.p_export,
   p_load |-> q * h.p_load, p_pv_actual |-> q * h.p_pv_actual,
   p_bat_charge |-> q * h.p_bat_charge, p_bat_discharge |-> q * h.p_bat_discharge,
   z |-> h.z]

CapVar(F) ==
  IF F.question \in {"question_2b"}
  THEN {Resolution(F) * c : c \in 0..MaxCap}
  ELSE {F.P_bat_cap}

SocVar(F) == {Resolution(F) * s : s \in 0..MaxCap}

(***************************************************************************)
(* Constraints, under the names the code gives them                        *)
(***************************************************************************)
total_load_min(F, total) == total >= F.P_min
\* faulty variant: the upper bound is the number of hours times the hourly maximum
total_load_max_hours(F, total) == total <= F.num_hours * F.P_L_max

total_load_max(F, total) == total <= F.P_max
soc_lim(F, soc, cap) == soc <= cap
\* faulty variant: the import is bounded by the export limit
import_lim_up(F, h) == h.p_import <= F.P_up

import_lim(F, h) == h.p_import <= F.P_down
export_lim(F, h) == h.p_export <= F.P_up
\* faulty variant: utilised PV is bounded by the installed capacity of the grid only
pv_lim_flat(F, h, t) == h.p_pv_actual <= MaxFlow

pv_lim(F, h, t) == h.p_pv_actual <= F.P_pv[t]
p_load_lim(F, h) == h.p_load <= F.P_L_max

charge_excl(F, h) ==
  IF F.question \in {"question_2b"}
  THEN ZDen * h.p_bat_charge <= big_m * h.z
  ELSE ZDen * h.p_bat_charge <= F.P_bat_ch_max * h.z

discharge_excl(F, h) ==
  IF F.question \in {"question_2b"}
  THEN ZDen * h.p_bat_discharge <= big_m * (ZDen - h.z)
  ELSE ZDen * h.p_bat_discharge <= F.P_bat_dis_max * (ZDen - h.z)

\* faulty variant: the charge is left out of the balance
balance_no_charge(h) ==
  h.p_import + h.p_pv_actual + h.p_bat_discharge = h.p_load + h.p_export

balance(h) ==
  h.p_import + h.p_pv_actual + h.p_bat_discharge
    = h.p_load + h.p_export + h.p_bat_charge

soc_init(F, soc, cap) == soc = F.initial_soc * cap
\* faulty variant: the final requirement is not scaled by the capacity
soc_end_min_unscaled(F, soc, cap) == soc >= F.final_soc

soc_end_min(F, soc, cap) == soc >= F.final_soc * cap

\* faulty variant: the efficiencies are left out
soc_update_lossless(F, soc, h, socNext) ==
  socNext = soc + h.p_bat_charge - h.p_bat_discharge

\* soc[t+1] = soc[t] + eff_ch * charge[t] - (1 / eff_dis) * discharge[t],
\* multiplied through by den(eff_ch) * num(eff_dis)
soc_update(F, soc, h, socNext) ==
  LET ec == F.P_bat_ch_eff
      ed == F.P_bat_dis_eff
  IN socNext * ec.den * ed.num
       = soc * ec.den * ed.num
         + ec.num * ed.num * h.p_bat_charge
         - ed.den * ec.den * h.p_bat_discharge

\* the constraints of every hour but pv_lim, whose bound depends on the hour
HourConstraints(F, h) ==
  /\ balance(h)
  /\ import_lim(F, h)
  /\ export_lim(F, h)
  /\ p_load_lim(F, h)
  /\ charge_excl(F, h)
  /\ discharge_excl(F, h)

(***************************************************************************)
(* Objective (maximised), in milli-DKK                                     *)
(***************************************************************************)
ProfitTerm(F, h, t) ==
  MilliPerCenti * (CentiPerDKK * F.da_price[t] - F.phi_exp[t]) * h.p_export
  - MilliPerCenti * (CentiPerDKK * F.da_price[t] + F.phi_imp[t]) * h.p_import

\* faulty variant: the objective carries no penalty on the flows
PenaltyTerm_none(F, h) == 0

PenaltyTerm(F, h) ==
  epsilon * (h.p_bat_charge + h.p_bat_discharge)
  + epsilon * (h.p_import + h.p_export)

DiscomfortTerm(F, h, t) ==
  (h.p_load - F.reference_profile[t]) * (h.p_load - F.reference_profile[t])

ObjHour(F, h, t) ==
  IF F.question = "question_1a"
  THEN ProfitTerm(F, h, t) - PenaltyTerm(F, h)
  ELSE ProfitTerm(F, h, t)
       - MilliPerDKK * F.discomfort_cost_per_kWh * DiscomfortTerm(F, h, t)
       - PenaltyTerm(F, h)

ObjCap(F, cap) ==
  IF F.question # "question_1a" /\ F.question = "question_2b"
  THEN MilliPerDKK * cap * F.battery_price_coeff
  ELSE 0

(***************************************************************************)
(* model.optimize(): the external solver.  It returns an optimal point of  *)
(* the formulation on the grid, or reports that there is none.  The solver *)
(* is deterministic: which of several optimal points it returns is fixed   *)
(* by its hidden tie-break behaviour, tie.                                 *)
(*                                                                         *)
(* The objective is a sum over hours, and the hours are coupled only by    *)
(* the load, the charge and the discharge of each hour (through the soc    *)
(* chain, the total load and the capacity).  The optimum is therefore      *)
(* found over chains of such keys, each hour valued by the best flows of   *)
(* its key.                                                                *)
(***************************************************************************)
MaxOf(S) == With(S, LAMBDA Q : CHOOSE x \in Q : \A y \in Q : y <= x)

RECURSIVE Nth(_, _)
Nth(S, k) ==
  IF k = 0 THEN CHOOSE x \in S : TRUE
  ELSE With(S \ {CHOOSE x \in S : TRUE}, LAMBDA Q : Nth(Q, k - 1))

Pick(S, tie) == With(S, LAMBDA Q : Nth(Q, tie % Cardinality(Q)))

HourKey(h) ==
  [p_load |-> h.p_load, p_bat_charge |-> h.p_bat_charge,
   p_bat_discharge |-> h.p_bat_discharge]

RECURSIVE Chains(_, _, _, _, _)
Chains(F, K, cap, t, soc) ==
  IF t = F.num_hours
  THEN IF soc_end_min(F, soc, cap)
       THEN {<<[key |-> k, soc |-> soc]>> : k \in K[t]}
       ELSE {}
  ELSE UNION { UNION { {<<[key |-> k, soc |-> soc]>> \o c :
                          c \in Chains(F, K, cap, t + 1, s2)} :
                       s2 \in {s \in SocVar(F) : /\ soc_lim(F, s, cap)
                                              /\ soc_update(F, soc, k, s)} } :
               k \in K[t] }

Skeletons(F, K) ==
  UNION { UNION { {[cap |-> cap, chain |-> c] :
                     c \in {d \in Chains(F, K, cap, 1, s0) :
                              LET total == SumSeq([t \in 1..F.num_hours |-> d[t].key.p_load])
                              IN total_load_min(F, total) /\ total_load_max(F, total)}} :
                  s0 \in {s \in SocVar(F) : soc_lim(F, s, cap) /\ soc_init(F, s, cap)} } :
          cap \in CapVar(F) }

Balanced == {h \in FlowVars : balance(h)}

HourFlows(F) ==
  With({h \in (IF Resolution(F) = 1 THEN Balanced
               ELSE {OnGrid(g, Resolution(F)) : g \in Balanced}) :
          HourConstraints(F, h)}, LAMBDA B :
    [t \in 1..F.num_hours |-> {h \in B : pv_lim(F, h, t)}])

HourKeys(F, HF) == [t \in 1..F.num_hours |-> {HourKey(h) : h \in HF[t]}]

HourBest(F, HF, K) ==
  [t \in 1..F.num_hours |-> [k \in K[t] |->
     MaxOf({ObjHour(F, h, t) : h \in {g \in HF[t] : HourKey(g) = k}})]]

SkeletonValue(F, Best, sk) ==
  SumSeq([t \in 1..F.num_hours |-> Best[t][sk.chain[t].key]]) - ObjCap(F, sk.cap)

Solution(F, HF, Best, sk, objVal, tie) ==
  [status |-> "OPTIMAL",
   objVal |-> objVal,
   p_bat_cap |-> sk.cap,
   soc |-> [t \in 1..F.num_hours |-> sk.chain[t].soc],
   y |-> [t \in 1..F.num_hours |-> tie % (ZDen + 1)],
   flows |-> [t \in 1..F.num_hours |->
                Pick({h \in HF[t] : /\ HourKey(h) = sk.chain[t].key
                                    /\ ObjHour(F, h, t) = Best[t][sk.chain[t].key]},
                     tie)]]

Optimize(F, tie) ==
  With(HourFlows(F), LAMBDA HF :
  With(HourKeys(F, HF), LAMBDA K :
  With(HourBest(F, HF, K), LAMBDA Best :
  With({[sk |-> sk, val |-> SkeletonValue(F, Best, sk)] : sk \in Skeletons(F, K)},
       LAMBDA Valued :
    IF Valued = {} THEN [status |-> "INFEASIBLE"]
    ELSE With(MaxOf({v.val : v \in Valued}), LAMBDA objVal :
         With(Pick({v.sk : v \in {w \in Valued : w.val = objVal}}, tie), LAMBDA sk :
           Solution(F, HF, Best, sk, objVal, tie)))))))

(***************************************************************************)
(* Result extraction.  The flat result mapping has the keys "<name>_<t>"   *)
(* (t from 0) and "<name>"; a key is held as its tokens, <<name, t>> or    *)
(* <<name>>.  A dual value is an opaque output of the solver.              *)
(***************************************************************************)
VARIABLES_ ==
  {"p_import", "p_export", "p_load", "p_pv_actual", "y", "z",
   "p_bat_charge", "p_bat_discharge", "soc"}

\* faulty variant: the hour is left out of the name of a constraint
ConstrName_flat(n, t) == <<n>>

\* name=f"<n>_{t}"
ConstrName(n, t) == <<n, t>>

\* the constraints of hour t (from 0), in the order they are added
HourConstraintNames(F, t) ==
  LET excl == IF F.question \in {"question_2b"}
              THEN <<"charge_excl", "discharge_excl">>
              ELSE <<"charge_exclusivity", "discharge_exclusivity">>
  IN <<ConstrName("soc_lim", t), ConstrName("import_lim", t),
       ConstrName("export_lim", t), ConstrName("pv_lim", t),
       ConstrName("p_load_lim", t), ConstrName(excl[1], t),
       ConstrName(excl[2], t), ConstrName("balance", t)>>
     \o (IF t = 0 THEN <<<<"soc_init">>>> ELSE <<>>)
     \o (IF t = F.num_hours - 1 THEN <<<<"soc_end_min">>>>
         ELSE <<ConstrName("soc_update", t)>>)

RECURSIVE ConstraintsFrom(_, _)
ConstraintsFrom(F, t) ==
  IF t >= F.num_hours THEN <<>>
  ELSE HourConstraintNames(F, t) \o ConstraintsFrom(F, t + 1)

\* model.getConstrs(): every constraint added, in order
getConstrs(F) ==
  <<<<"total_load_min">>, <<"total_load_max">>>> \o ConstraintsFrom(F, 0)

\* the keys of {c.ConstrName: c.Pi for c in model.getConstrs()}
ConstraintNames(F) ==
  With(getConstrs(F), LAMBDA cs : {cs[i] : i \in 1..Len(cs)})

X(sol, n, t) ==
  IF n = "soc" THEN sol.soc[t + 1]
  ELSE IF n = "y" THEN sol.y[t + 1]
  ELSE sol.flows[t + 1][n]

\* faulty variant: the division is not guarded
soc_normal_unguarded(soc, p_bat_cap_val) == [num |-> soc, den |-> p_bat_cap_val]

soc_normal_of(soc, p_bat_cap_val) ==
  IF p_bat_cap_val > 0 THEN [num |-> soc, den |-> p_bat_cap_val]
  ELSE [num |-> 0, den |-> 1]

discomfort_of(F, sol) ==
  SumSeq([t \in 1..F.num_hours |->
            (sol.flows[t].p_load - F.reference_profile[t])
            * (sol.flows[t].p_load - F.reference_profile[t])])

cash_flow_of(F, sol) ==
  SumSeq([t \in 1..F.num_hours |-> ProfitTerm(F, sol.flows[t], t)])

actual_profit_of(F, sol) ==
  IF F.question \in {"question_1b", "question_1c"}
  THEN cash_flow_of(F, sol)
  ELSE sol.objVal

Extract(F, sol) ==
  LET T == 0..(F.num_hours - 1)
      cap == IF F.question # "question_2b" THEN F.P_bat_cap ELSE sol.p_bat_cap
      dom == {<<n, t>> : n \in VARIABLES_, t \in T}
             \cup {<<"p_bat_cap">>, <<"p_curtailment">>, <<"soc_normal">>,
                   <<"battery_price_coeff">>, <<"duals">>, <<"phi_imp">>,
                   <<"phi_exp">>, <<"da_price">>, <<"actual_profit">>}
             \cup (IF F.question # "question_1a"
                   THEN {<<"reference_profile">>} ELSE {})
             \cup (IF F.question \in {"question_1b", "question_1c"}
                   THEN {<<"discomfort">>} ELSE {})
  IN [k \in dom |->
        IF Len(k) = 2 THEN X(sol, k[1], k[2])
        ELSE CASE k[1] = "p_bat_cap" -> cap
               [] k[1] = "p_curtailment" ->
                    [t \in 1..F.num_hours |-> F.P_pv[t] - sol.flows[t].p_pv_actual]
               [] k[1] = "soc_normal" ->
                    [t \in 1..F.num_hours |-> soc_normal_of(sol.soc[t], cap)]
               [] k[1] = "battery_price_coeff" -> F.battery_price_coeff
               [] k[1] = "duals" -> [c \in ConstraintNames(F) |-> "Pi"]
               [] k[1] = "phi_imp" -> F.phi_imp
               [] k[1] = "phi_exp" -> F.phi_exp
               [] k[1] = "da_price" -> F.da_price
               [] k[1] = "reference_profile" -> F.reference_profile
               [] k[1] = "discomfort" -> discomfort_of(F, sol)
               [] k[1] = "actual_profit" -> actual_profit_of(F, sol)]

(***************************************************************************)
(* build_and_solve_standardized on a fresh EnergySystemModel: the returned *)
(* pair, the attributes of the model object afterwards, and the position   *)
(* of the global generator afterwards.  total_profit is not an attribute   *)
(* of a fresh object ("unset").                                            *)
(***************************************************************************)
Unset == [tag |-> "unset"]
FreshModel == [results |-> NoneV, total_profit |-> Unset]

\* faulty variant: the attributes of the model object are left as they were
NonOptimal_keep(self) ==
  [ret |-> [results |-> NoneV, profit |-> NoneV], self |-> self]

NonOptimal(self) ==
  [ret |-> [results |-> NoneV, profit |-> NoneV],
   self |-> [results |-> NoneV, total_profit |-> NoneV]]

Optimal(self, results, objVal) ==
  [ret |-> [results |-> Dict(results), profit |-> Num(objVal)],
   self |-> [results |-> Dict(results), total_profit |-> Num(objVal)]]

\* an exception leaves the method before anything is stored or returned
Raised(self, m, a, r, e) ==
  [ret |-> [results |-> Unset, profit |-> Unset], self |-> self,
   F |-> [question |-> a.question, num_hours |-> a.num_hours],
   status |-> "LOADED", exc |-> e,
   rng |-> IF P_pv_raises(m, a) # "none" THEN r ELSE Perturbation(a, r).state]

build_and_solve_standardized(self, m, a, r, tie) ==
  With(BuildError(m, a), LAMBDA e :
    IF e # "none" THEN Raised(self, m, a, r, e)
    ELSE
  With(Params(m, a, r), LAMBDA F :
  With(Optimize(F, tie), LAMBDA sol :
  With(IF sol.status = "OPTIMAL"
       THEN Optimal(self, Extract(F, sol), sol.objVal)
       ELSE NonOptimal(self), LAMBDA out :
    [ret |-> out.ret, self |-> out.self, F |-> F, status |-> sol.status,
     exc |-> "none", rng |-> Perturbation(a, r).state]))))

(***************************************************************************)
(* Scenario input: the data set of the question (the files under           *)
(* data/<question>) and the scaling files of the scenarios.                *)
(***************************************************************************)
Half == [num |-> 1, den |-> 2]

Storage(eff) ==
  Lst(<<[storage_capacity_kWh |-> MaxCap, max_charging_power_ratio |-> 1,
         max_discharging_power_ratio |-> 1, charging_efficiency |-> eff,
         discharging_efficiency |-> eff, battery_price_coeff |-> 1]>>)

Appliances == [load |-> <<[max_load_kWh_per_hour |-> 1]>>,
               DER |-> <<[max_power_kW |-> 1]>>]

LoadPreferences(max) ==
  <<[min_total_energy_per_day_hour_equivalent |-> Num(1),
     max_total_energy_per_day_hour_equivalent |-> max,
     hourly_profile_ratio |-> Num(1)]>>

StoragePreferences(init, final) ==
  Lst(<<[initial_soc_ratio |-> init, final_soc_ratio |-> final]>>)

Bus ==
  <<("import_tariff_DKK/kWh" :> Num(1)) @@ ("export_tariff_DKK/kWh" :> Num(1))
    @@ [energy_price_DKK_per_kWh |-> Lst([i \in 1..MaxHours |-> 2 - (i % 2)]),
        max_import_kW |-> 1, max_export_kW |-> MaxFlow]>>

PvRatio == [i \in 1..MaxHours |-> i % 2]
Production == <<[hourly_profile_ratio |-> Lst(PvRatio)]>>

\* a mapping of the input files without one of its keys
Without(f, k) == [x \in DOMAIN f \ {k} |-> f[x]]

Datasets ==
  {[name |-> "no_storage",
    appliance_params |-> Appliances,
    usage_preference |-> <<[load_preferences |-> LoadPreferences(Num(1))]>>,
    DER_production |-> Production, bus_params |-> Bus],
   [name |-> "empty_battery",
    appliance_params |-> Appliances @@ [storage |-> Storage(One)],
    usage_preference |-> <<[load_preferences |-> LoadPreferences(NoneV),
                            storage_preferences |-> StoragePreferences(0, 1)]>>,
    DER_production |-> Production, bus_params |-> Bus],
   [name |-> "lossy_battery",
    appliance_params |-> Appliances @@ [storage |-> Storage(Half)],
    usage_preference |-> <<[load_preferences |-> LoadPreferences(NoneV),
                            storage_preferences |-> StoragePreferences(1, 0)]>>,
    DER_production |-> Production, bus_params |-> Bus],
   \* no reference consumption profile, "storage": null
   [name |-> "no_reference",
    appliance_params |-> Appliances @@ [storage |-> NoneV],
    usage_preference |->
      <<[load_preferences |-> <<Without(LoadPreferences(Num(1))[1], "hourly_profile_ratio")>>]>>,
    DER_production |-> Production, bus_params |-> Bus],
   \* a PV profile of one hour only, "storage": []
   [name |-> "short_pv",
    appliance_params |-> Appliances @@ [storage |-> Lst(<<>>)],
    usage_preference |-> <<[load_preferences |-> LoadPreferences(Num(1))]>>,
    DER_production |-> <<[hourly_profile_ratio |-> Lst(<<1>>)]>>, bus_params |-> Bus],
   \* no minimum energy requirement among the load preferences
   [name |-> "no_requirement",
    appliance_params |-> Appliances,
    usage_preference |->
      <<[load_preferences |->
           <<Without(LoadPreferences(Num(1))[1], "min_total_energy_per_day_hour_equivalent")>>]>>,
    DER_production |-> Production, bus_params |-> Bus]}

Scalings ==
  {EmptyDict,
   [pv_scale |-> 2, discomfort_cost_per_kWh |-> 2, export_tariff_scale |-> 10,
    max_export_kW |-> 10],
   [load_scale |-> MaxHours + 1],
   [battery_price_coeff_scale |-> 1000, storage_capacity_scale |-> -1]}

Questions == {"question_1a", "question_1b", "question_1c", "question_2b"}

(***************************************************************************)
(* Scenario A: 4 hours, no battery, available PV [0,5,5,0] kWh, price 1    *)
(* DKK/kWh in every hour, import and export limits 10 kW, load requirement *)
(* 0 to 0.  The tariffs of 0.1 DKK/kWh are a stored tariff of 1 DKK/kWh    *)
(* under the multipliers 0.1 of the scaling file.                          *)
(***************************************************************************)
HoursA == 4
PvA == <<0, 5, 5, 0>>
LimitA == 10
LoadA == 5

ScenarioA ==
  [name |-> "scenario_A",
   appliance_params |-> [load |-> <<[max_load_kWh_per_hour |-> LoadA]>>,
                         DER |-> <<[max_power_kW |-> 1]>>],
   usage_preference |->
     <<[load_preferences |-> <<[min_total_energy_per_day_hour_equivalent |-> Num(0),
                                max_total_energy_per_day_hour_equivalent |-> Num(0),
                                hourly_profile_ratio |-> Num(0)]>>]>>,
   DER_production |-> <<[hourly_profile_ratio |-> Lst(PvA)]>>,
   bus_params |->
     <<("import_tariff_DKK/kWh" :> Num(1)) @@ ("export_tariff_DKK/kWh" :> Num(1))
       @@ [energy_price_DKK_per_kWh |-> Num(1),
           max_import_kW |-> LimitA, max_export_kW |-> LimitA]>>]

ScalingA == [import_tariff_scale |-> 1, export_tariff_scale |-> 1]

ScalingsA ==
  {ScalingA, ScalingA @@ [pv_scale |-> 2], ScalingA @@ [price_scale |-> 2]}

\* the scaling files of the scenarios that belong to a data set
ScenarioFiles(d) == IF d.name = "scenario_A" THEN ScalingsA ELSE Scalings

(***************************************************************************)
(* A Python dict that is iterated is held as the sequence of its items in  *)
(* insertion order, each [k, v].                                           *)
(***************************************************************************)
Item(k, v) == [k |-> k, v |-> v]
HasKey(d, k) == \E i \in 1..Len(d) : d[i].k = k
GetItem(d, k) == d[CHOOSE i \in 1..Len(d) : d[i].k = k].v
SetItem(d, k, v) ==
  IF HasKey(d, k)
  THEN [i \in 1..Len(d) |-> IF d[i].k = k THEN Item(k, v) ELSE d[i]]
  ELSE Append(d, Item(k, v))

(***************************************************************************)
(* The text of a result key: its tokens joined by "_".  A token is a run   *)
(* of decimal digits or a word, a text that is not digits only and holds   *)
(* no "_" before digits only.  str(t) is the decimal rendering of t,       *)
(* int(ds) the number a run of digits denotes.                             *)
(***************************************************************************)
Word(w) == [word |-> w, digits |-> <<>>]
Digits(ds) == [word |-> "", digits |-> ds]

RECURSIVE str(_)
str(n) == IF n < 10 THEN <<n>> ELSE str(n \div 10) \o <<n % 10>>

RECURSIVE int(_)
int(ds) ==
  IF Len(ds) = 0 THEN 0
  ELSE 10 * int(SubSeq(ds, 1, Len(ds) - 1)) + ds[Len(ds)]

\* f"{name}_{t}", or the plain name
KeyText(k) ==
  IF Len(k) = 2 THEN <<Word(k[1]), Digits(str(k[2]))>> ELSE <<Word(k[1])>>

\* re.compile(r"(.+)_([0-9]+)$").match(k): the key ends in "_" and digits,
\* after a base of at least one character
pattern_match(k) ==
  IF /\ Len(k) >= 2
     /\ Len(k[Len(k)].digits) > 0
     /\ ~(Len(k) = 2 /\ k[1] = Word(""))
  THEN [matched |-> TRUE, base |-> SubSeq(k, 1, Len(k) - 1),
        idx |-> int(k[Len(k)].digits)]
  ELSE [matched |-> FALSE]

(***************************************************************************)
(* The flat result mapping as Python holds it: the items in the order the  *)
(* extraction inserts them, the keys as text, numbers and lists tagged.    *)
(***************************************************************************)
VariableOrder ==
  <<"p_import", "p_export", "p_load", "p_pv_actual", "y", "z",
    "p_bat_charge", "p_bat_discharge", "soc">>

NamedOrder ==
  <<"p_bat_cap", "p_curtailment", "soc_normal", "battery_price_coeff", "duals",
    "phi_imp", "phi_exp", "da_price", "reference_profile", "discomfort",
    "actual_profit">>

PyValue(name, x) ==
  IF name \in {"p_curtailment", "soc_normal", "phi_imp", "phi_exp", "da_price",
               "reference_profile"}
  THEN Lst([i \in 1..Len(x) |-> Num(x[i])])
  ELSE IF name = "duals" THEN Dict(x)
  ELSE Num(x)

\* the keys of the sequence keys that r holds, each at its first place
ItemsFrom(r, keys) ==
  With({i \in 1..Len(keys) :
          /\ keys[i] \in DOMAIN r
          /\ \A j \in 1..(i - 1) : keys[j] # keys[i]}, LAMBDA kept :
    [n \in 1..Cardinality(kept) |->
       With(CHOOSE i \in kept : Cardinality({j \in kept : j < i}) = n - 1,
            LAMBDA i : Item(KeyText(keys[i]), PyValue(keys[i][1], r[keys[i]])))])

RECURSIVE InsertionOrder(_, _)
InsertionOrder(t, num_hours) ==
  IF t >= num_hours THEN [i \in 1..Len(NamedOrder) |-> <<NamedOrder[i]>>]
  ELSE [i \in 1..Len(VariableOrder) |-> <<VariableOrder[i], t>>]
       \o <<<<"p_bat_cap">>>> \o InsertionOrder(t + 1, num_hours)

ResultItems(results) ==
  IF IsNone(results) THEN NoneV
  ELSE With(Cardinality({k \in DOMAIN results.val : Len(k) = 2 /\ k[1] = "soc"}),
         LAMBDA num_hours :
           Dict(ItemsFrom(results.val, InsertionOrder(0, num_hours))))

(***************************************************************************)
(* Runner._results_flat_to_lists.  grouped is a defaultdict(list): a key   *)
(* that matches the pattern is appended, as the tuple (idx, v), to what    *)
(* grouped holds under its base (a new list when nothing is held; append   *)
(* raises AttributeError on a value that is no list); any other key is     *)
(* assigned.  A held list that starts with a tuple is then sorted by the   *)
(* index and stripped of it.  results.items() raises on None.              *)
(***************************************************************************)
Tup(idx, v) == [tag |-> "tuple", idx |-> idx, v |-> v]

\* one pass of the loop on what grouped holds under the key the item goes to
\* (held, Unset when it holds nothing there)
GroupItem(held, m, v) ==
  IF m.matched
  THEN IF held = Unset
       THEN [exc |-> "none", val |-> Lst(<<Tup(m.idx, v)>>)]
       ELSE IF held.tag # "list" THEN [exc |-> "AttributeError"]
       ELSE [exc |-> "none", val |-> Lst(Append(held.val, Tup(m.idx, v)))]
  ELSE [exc |-> "none", val |-> v]

\* the passes, in order, of the items that go to one key of grouped
RECURSIVE GroupFrom(_, _, _, _)
GroupFrom(items, ms, passes, held) ==
  IF Len(passes) = 0 THEN [exc |-> "none", val |-> held]
  ELSE With(GroupItem(held, ms[passes[1]], items[passes[1]].v), LAMBDA g :
         IF g.exc # "none" THEN g
         ELSE GroupFrom(items, ms, Tail(passes), g.val))

\* the members of a set of positions in increasing order
Ascending(S) ==
  With(S, LAMBDA Q :
    [n \in 1..Cardinality(Q) |->
       CHOOSE i \in Q : Cardinality({j \in Q : j < i}) = n - 1])

\* grouped after the first loop: its keys in the order they were first
\* written, each with what the passes of its items leave under it
Grouped(items) ==
  With([i \in 1..Len(items) |-> pattern_match(items[i].k)], LAMBDA ms :
  With([i \in 1..Len(items) |-> IF ms[i].matched THEN ms[i].base ELSE items[i].k],
       LAMBDA to :
  With(Ascending({i \in 1..Len(items) : \A j \in 1..(i - 1) : to[j] # to[i]}),
       LAMBDA first :
  With([n \in 1..Len(first) |->
          GroupFrom(items, ms,
                    Ascending({i \in 1..Len(items) : to[i] = to[first[n]]}),
                    Unset)], LAMBDA gs :
    IF \E n \in 1..Len(gs) : gs[n].exc # "none"
    THEN [exc |-> "AttributeError"]
    ELSE [exc |-> "none",
          val |-> [n \in 1..Len(gs) |-> Item(to[first[n]], gs[n].val)]]))))

\* values.sort(key=lambda x: x[0]): stable, by the index
RECURSIVE sort_by_index(_)
sort_by_index(values) ==
  IF Len(values) = 0 THEN <<>>
  ELSE With(CHOOSE i \in 1..Len(values) :
              /\ \A j \in 1..Len(values) : values[i].idx <= values[j].idx
              /\ \A j \in 1..(i - 1) : values[j].idx > values[i].idx,
         LAMBDA lo :
           <<values[lo]>>
           \o sort_by_index(SubSeq(values, 1, lo - 1)
                            \o SubSeq(values, lo + 1, Len(values))))

ListedValue(values) ==
  IF values.tag = "list" /\ Len(values.val) > 0 /\ values.val[1].tag = "tuple"
  THEN IF \E i \in 1..Len(values.val) : values.val[i].tag # "tuple"
       THEN [exc |-> "TypeError"]
       ELSE With(sort_by_index(values.val), LAMBDA sorted :
              [exc |-> "none", val |-> Lst([i \in 1..Len(sorted) |-> sorted[i].v])])
  ELSE [exc |-> "none", val |-> values]

results_flat_to_lists(results) ==
  IF IsNone(results) THEN [exc |-> "AttributeError"]
  ELSE With(Grouped(results.val), LAMBDA g :
         IF g.exc # "none" THEN g
         ELSE With([i \in 1..Len(g.val) |-> ListedValue(g.val[i].v)], LAMBDA outs :
                IF \E i \in 1..Len(outs) : outs[i].exc # "none"
                THEN [exc |-> "TypeError"]
                ELSE [exc |-> "none",
                      val |-> Dict([i \in 1..Len(outs) |->
                                      Item(g.val[i].k, outs[i].val)])]))

(***************************************************************************)
(* utils.select_scenarios.  A name is the sequence of its characters, so   *)
(* that letter case is part of it; str.lower maps each character.          *)
(***************************************************************************)
Str(w) == [tag |-> "str", val |-> w]

lower_char(ch) ==
  CASE ch = "A" -> "a"
    [] ch = "L" -> "l"
    [] ch = "B" -> "b"
    [] OTHER -> ch

lower(w) == [i \in 1..Len(w) |-> lower_char(w[i])]

\* {k.lower(): k for k in d}: a later name replaces an earlier one
RECURSIVE lower_map(_, _)
lower_map(d, m) ==
  IF Len(d) = 0 THEN m
  ELSE lower_map(Tail(d), SetItem(m, lower(d[1].k), d[1].k))

RECURSIVE SelectFrom(_, _, _, _)
SelectFrom(d, m, keys, selected) ==
  IF Len(keys) = 0 THEN selected
  ELSE With(lower(keys[1]), LAMBDA k_lower :
         SelectFrom(d, m, Tail(keys),
                    IF HasKey(m, k_lower)
                    THEN SetItem(selected, GetItem(m, k_lower),
                                 GetItem(d, GetItem(m, k_lower)))
                    ELSE selected))

select_scenarios(d, keys) ==
  IF \/ keys.tag = "str" /\ keys.val = <<"A", "l", "l">>
     \/ keys.tag = "list" /\ keys.val = <<<<"A", "l", "l">>>>
     \/ keys.tag = "list" /\ keys.val = <<<<"a", "l", "l">>>>
  THEN d
  ELSE SelectFrom(d, lower_map(d, <<>>),
                  IF keys.tag = "str" THEN <<keys.val>> ELSE keys.val, <<>>)

(***************************************************************************)
(* utils.print_results / print_results_small: the membership test on       *)
(* results comes first and raises on None.                                 *)
(***************************************************************************)
print_results(results, profit, scenario_name) ==
  IF IsNone(results) THEN [exc |-> "TypeError"]
  ELSE [exc |-> "none"]

print_results_small(results, profit, scenario_name) ==
  IF IsNone(results) THEN [exc |-> "TypeError"]
  ELSE [exc |-> "none"]

(***************************************************************************)
(* State                                                                   *)
(***************************************************************************)
VARIABLES
  runner,            \* attributes of the Runner
  question,          \* the question argument of run_all_simulations
  dataset,           \* content of the files under data/<question>
  rng,               \* position of numpy's global generator
  tie,               \* tie-break behaviour of the solver installation
  esm,               \* attributes of the latest EnergySystemModel
  calls,             \* history of the solves: scaling file, generator position
                     \* at the call, formulation, solver status, returned pair
  scenario_results,  \* run_all_simulations: one entry per finished scenario
  pc,                \* "loop", "returned", "printed" or "raised"
  exc,               \* the exception that ended the program, or "none"
  arg,               \* a helper called on its own: its name and arguments
  result             \* what that call returned or raised

vars == <<runner, question, dataset, rng, tie, esm, calls, scenario_results, pc, exc,
          arg, result>>

FixedDA == {NoneV, Num(0), Num(2)}

Init ==
  /\ runner \in [question : Questions, num_hours : 1..MaxHours,
                 vary_tariff : BOOLEAN, fixed_da : FixedDA]
  /\ question = runner.question
  /\ dataset \in Datasets
  /\ rng \in 0..(RngMod - 1)
  /\ tie \in 0..MaxTie
  /\ esm = FreshModel
  /\ calls = <<>>
  /\ scenario_results = <<>>
  /\ pc = "loop"
  /\ exc = "none"
  /\ arg = NoneV
  /\ result = Unset

(***************************************************************************)
(* Runner.run_single_simulation: the adapters of one scenario              *)
(***************************************************************************)
Consumer(scaling) ==
  LET c == [usage_preference |-> dataset.usage_preference,
            appliance_params |-> dataset.appliance_params,
            scale |-> scaling]
  IN IF "discomfort_cost_per_kWh" \in DOMAIN scaling
     THEN c @@ [discomfort_cost_per_kWh |-> scaling["discomfort_cost_per_kWh"]]
     ELSE c

DER(scaling) ==
  [der_production |-> dataset.DER_production,
   appliance_params |-> dataset.appliance_params,
   scale |-> scaling]

Grid(scaling) == [bus_params |-> dataset.bus_params, scale |-> scaling]

\* the data set is the one loaded for the argument q
run_single_simulation(q, scaling) ==
  build_and_solve_standardized(
    FreshModel,
    [consumer |-> Consumer(scaling), der |-> DER(scaling), grid |-> Grid(scaling)],
    [question |-> runner.question, num_hours |-> runner.num_hours,
     vary_tariff |-> runner.vary_tariff, fixed_da |-> runner.fixed_da],
    rng, tie)

(***************************************************************************)
(* One iteration of the loop of Runner.run_all_simulations                 *)
(***************************************************************************)
RunScenario ==
  /\ pc = "loop"
  /\ Len(calls) < MaxScenarios
  /\ \E scaling \in ScenarioFiles(dataset) :
     \E out \in {run_single_simulation(question, scaling)} :
     \E listed \in {IF out.exc # "none" THEN [exc |-> out.exc]
                     ELSE results_flat_to_lists(ResultItems(out.ret.results))} :
          /\ calls' = Append(calls, [data |-> question,
                                     scaling |-> scaling, rng |-> rng, F |-> out.F,
                                     status |-> out.status, exc |-> out.exc,
                                     ret |-> out.ret])
          /\ esm' = out.self
          /\ rng' = out.rng
          /\ IF listed.exc # "none"
             THEN /\ pc' = "raised"
                  /\ exc' = listed.exc
                  /\ UNCHANGED scenario_results
             ELSE /\ scenario_results' =
                       Append(scenario_results,
                              [results |-> listed.val, profit |-> out.ret.profit])
                  /\ UNCHANGED <<pc, exc>>
  /\ UNCHANGED <<runner, question, dataset, tie, arg, result>>

(***************************************************************************)
(* The loop of run_all_simulations ends and the method returns; the Runner  *)
(* is built with show_plots = save_plots = False (the constructor's         *)
(* defaults), so the plotting branch is not entered.                        *)
(***************************************************************************)
ReturnResults ==
  /\ pc = "loop"
  /\ pc' = "returned"
  /\ UNCHANGED <<runner, question, dataset, rng, tie, esm, calls, scenario_results,
                 exc, arg, result>>

(***************************************************************************)
(* utils.print_all_scenarios over the returned scenario_results            *)
(***************************************************************************)
RECURSIVE FirstExc(_)
FirstExc(outs) ==
  IF Len(outs) = 0 THEN "none"
  ELSE IF outs[1].exc # "none" THEN outs[1].exc
  ELSE FirstExc(Tail(outs))

print_all_scenarios(sr, mode) ==
  FirstExc([i \in 1..Len(sr) |->
              IF mode = "small"
              THEN print_results_small(sr[i].results, sr[i].profit, i)
              ELSE print_results(sr[i].results, sr[i].profit, i)])

PrintAllScenarios ==
  /\ pc = "returned"
  /\ \E mode \in {"small", "large"} :
       LET e == print_all_scenarios(scenario_results, mode)
       IN /\ exc' = e
          /\ pc' = IF e = "none" THEN "printed" ELSE "raised"
  /\ UNCHANGED <<runner, question, dataset, rng, tie, esm, calls, scenario_results,
                 arg, result>>

Next == RunScenario \/ ReturnResults \/ PrintAllScenarios

Spec == Init /\ [][Next]_vars

\* the program run on Scenario A
InitA ==
  /\ runner = [question |-> "question_1a", num_hours |-> HoursA,
               vary_tariff |-> FALSE, fixed_da |-> NoneV]
  /\ question = runner.question
  /\ dataset = ScenarioA
  /\ rng \in 0..(RngMod - 1)
  /\ tie \in 0..MaxTie
  /\ esm = FreshModel
  /\ calls = <<>>
  /\ scenario_results = <<>>
  /\ pc = "loop"
  /\ exc = "none"
  /\ arg = NoneV
  /\ result = Unset

SpecA == InitA /\ [][Next]_vars

\* run_all_simulations called with a question of its own on a Runner built
\* for any question
InitQ ==
  /\ runner \in [question : Questions, num_hours : 1..MaxHours,
                 vary_tariff : {FALSE}, fixed_da : {NoneV}]
  /\ question \in Questions
  /\ dataset \in Datasets
  /\ rng = 0
  /\ tie = 0
  /\ esm = FreshModel
  /\ calls = <<>>
  /\ scenario_results = <<>>
  /\ pc = "loop"
  /\ exc = "none"
  /\ arg = NoneV
  /\ result = Unset

SpecQ == InitQ /\ [][Next]_vars

(***************************************************************************)
(* The helpers called on their own: Runner._results_flat_to_lists on a     *)
(* flat mapping and utils.select_scenarios on a scenario index and a       *)
(* selection.                                                              *)
(***************************************************************************)
MaxItems == 3

FlatKeys ==
  {<<Word("x")>>, <<Word("y")>>,
   <<Word("x"), Digits(<<0>>)>>, <<Word("x"), Digits(<<2>>)>>,
   <<Word("x"), Digits(<<1, 0>>)>>, <<Word("y"), Digits(<<1>>)>>}

\* mappings of up to MaxItems keys, the value of the i-th being the number i
FlatMappings ==
  {[i \in 1..Len(ks) |-> Item(ks[i], Num(i))] :
     ks \in {q \in UNION {[1..n -> FlatKeys] : n \in 1..MaxItems} :
               \A i, j \in 1..Len(q) : q[i] = q[j] => i = j}}

ScenarioNames ==
  {<<"b">>, <<"B">>, <<"a", "l", "l">>, <<"A", "l", "l">>, <<"A", "L", "L">>,
   <<"a", "L", "l">>}

ScenarioIndexes ==
  {<<>>,
   <<Item(<<"b">>, "b.json")>>,
   <<Item(<<"B">>, "B.json"), Item(<<"a", "l", "l">>, "all.json")>>,
   <<Item(<<"b">>, "b.json"), Item(<<"B">>, "B.json")>>}

Selections ==
  {Str(w) : w \in ScenarioNames}
  \cup {Lst(<<w>>) : w \in ScenarioNames}
  \cup {Lst(<<w, x>>) : w, x \in ScenarioNames}

InitU ==
  /\ runner = [question |-> "question_1a", num_hours |-> 1,
               vary_tariff |-> FALSE, fixed_da |-> NoneV]
  /\ question = runner.question
  /\ dataset = CHOOSE d \in Datasets : d.name = "no_storage"
  /\ rng = 0
  /\ tie = 0
  /\ esm = FreshModel
  /\ calls = <<>>
  /\ scenario_results = <<>>
  /\ pc = "call"
  /\ exc = "none"
  /\ arg \in {[fn |-> "_results_flat_to_lists", results |-> Dict(m)] :
                m \in FlatMappings}
            \cup {[fn |-> "select_scenarios", d |-> d, keys |-> keys] :
                    d \in ScenarioIndexes, keys \in Selections}
  /\ result = Unset

ResultsFlatToLists ==
  /\ pc = "call"
  /\ arg.fn = "_results_flat_to_lists"
  /\ result' = results_flat_to_lists(arg.results)
  /\ pc' = "done"
  /\ UNCHANGED <<runner, question, dataset, rng, tie, esm, calls, scenario_results,
                 exc, arg>>

SelectScenarios ==
  /\ pc = "call"
  /\ arg.fn = "select_scenarios"
  /\ result' = select_scenarios(arg.d, arg.keys)
  /\ pc' = "done"
  /\ UNCHANGED <<runner, question, dataset, rng, tie, esm, calls, scenario_results,
                 exc, arg>>

NextU == ResultsFlatToLists \/ SelectScenarios

SpecU == InitU /\ [][NextU]_vars

(***************************************************************************)
(* Properties                                                              *)
(***************************************************************************)
Returned(c) == c.ret.results.tag = "dict"
Res(c) == c.ret.results.val
HoursOf(c) == 0..(c.F.num_hours - 1)
Val(c, n, t) == Res(c)[<<n, t>>]
FixedCapacity(c) == c.F.question \in {"question_1a", "question_1b", "question_1c"}
TotalLoad(c) == SumSeq([i \in 1..c.F.num_hours |-> Val(c, "p_load", i - 1)])

\* C1: in every returned result and every hour,
\* import + PV-utilised + discharge = load + export + charge
C1_HourlyBalance ==
  \A i \in 1..Len(calls) : Returned(calls[i]) =>
    \A t \in HoursOf(calls[i]) :
      Val(calls[i], "p_import", t) + Val(calls[i], "p_pv_actual", t)
        + Val(calls[i], "p_bat_discharge", t)
      = Val(calls[i], "p_load", t) + Val(calls[i], "p_export", t)
        + Val(calls[i], "p_bat_charge", t)

\* a returned dispatch that charges the battery
C1_Witness ==
  \E i \in 1..Len(calls) : /\ Returned(calls[i])
                           /\ \E t \in HoursOf(calls[i]) :
                                /\ Val(calls[i], "p_bat_charge", t) > 0
                                /\ Val(calls[i], "p_import", t) > 0

\* C2: with a fixed capacity, soc[t] <= capacity in every hour,
\* soc[0] = initialSOC x capacity and soc[last] >= finalSOC x capacity,
\* capacity being the consumer's scaled storage capacity
C2_SocLimits ==
  \A i \in 1..Len(calls) : (Returned(calls[i]) /\ FixedCapacity(calls[i])) =>
    LET capacity == get_storage_capacity(Consumer(calls[i].scaling))
        initialSOC == get_initial_soc(Consumer(calls[i].scaling))
        finalSOC == get_final_soc(Consumer(calls[i].scaling))
    IN /\ \A t \in HoursOf(calls[i]) : Val(calls[i], "soc", t) <= capacity
       /\ Val(calls[i], "soc", 0) = initialSOC * capacity
       /\ Val(calls[i], "soc", calls[i].F.num_hours - 1) >= finalSOC * capacity

\* a returned fixed-capacity dispatch that had to fill an empty battery
C2_Witness ==
  \E i \in 1..Len(calls) :
    /\ Returned(calls[i]) /\ FixedCapacity(calls[i])
    /\ get_storage_capacity(Consumer(calls[i].scaling)) > 1
    /\ get_final_soc(Consumer(calls[i].scaling)) > 0
    /\ Val(calls[i], "soc", 0) = 0
    /\ Val(calls[i], "soc", calls[i].F.num_hours - 1) > 0

\* C3: for every hour t but the last of a returned result,
\* soc[t+1] = soc[t] + chargeEfficiency * charge[t] - discharge[t] / dischargeEfficiency
\* (both sides multiplied by den(chargeEfficiency) * num(dischargeEfficiency))
C3_SocDynamics ==
  \A i \in 1..Len(calls) : Returned(calls[i]) =>
    LET ec == get_charging_efficiency(Consumer(calls[i].scaling))
        ed == get_discharging_efficiency(Consumer(calls[i].scaling))
    IN \A t \in HoursOf(calls[i]) \ {calls[i].F.num_hours - 1} :
         Val(calls[i], "soc", t + 1) * ec.den * ed.num
           = Val(calls[i], "soc", t) * ec.den * ed.num
             + ec.num * ed.num * Val(calls[i], "p_bat_charge", t)
             - ed.den * ec.den * Val(calls[i], "p_bat_discharge", t)

\* a returned dispatch that discharges a lossy battery before the last hour
C3_Witness ==
  \E i \in 1..Len(calls) :
    /\ Returned(calls[i])
    /\ get_discharging_efficiency(Consumer(calls[i].scaling)).den > 1
    /\ calls[i].F.num_hours > 1
    /\ Val(calls[i], "p_bat_discharge", 0) > 0
    /\ Val(calls[i], "soc", 1) < Val(calls[i], "soc", 0) - Val(calls[i], "p_bat_discharge", 0)

\* C4: the total served load of a returned result lies in
\* [minRequirement, maxRequirement], the scaled hour-equivalents times the
\* maximum hourly load
C4_TotalLoad ==
  \A i \in 1..Len(calls) : Returned(calls[i]) =>
    LET c == Consumer(calls[i].scaling)
        minRequirement == get_minimum_energy_requirement(c) * get_max_load_per_hour(c)
        maxRequirement == get_maximum_energy_requirement(c) * get_max_load_per_hour(c)
    IN /\ minRequirement <= TotalLoad(calls[i])
       /\ TotalLoad(calls[i]) <= maxRequirement

\* a returned dispatch of a discomfort variant whose load is held below the
\* reference profile by the maximum requirement
C4_Witness ==
  \E i \in 1..Len(calls) :
    /\ Returned(calls[i])
    /\ calls[i].F.question = "question_1b"
    /\ TotalLoad(calls[i]) = calls[i].F.P_max
    /\ calls[i].F.P_max < calls[i].F.num_hours * calls[i].F.P_L_max

\* C5: in every returned result and every hour,
\* p_curtailment[t] = availablePV[t] - p_pv_actual[t] and p_curtailment[t] >= 0,
\* availablePV[t] = PV capacity x profile ratio[t] x pv scaling
availablePV(c, t) ==
  dataset.appliance_params["DER"][1]["max_power_kW"]
  * dataset.DER_production[1]["hourly_profile_ratio"].val[t + 1]
  * DictGet(c.scaling, "pv_scale", 1)

C5_Curtailment ==
  \A i \in 1..Len(calls) : Returned(calls[i]) =>
    \A t \in HoursOf(calls[i]) :
      /\ Res(calls[i])[<<"p_curtailment">>][t + 1]
           = availablePV(calls[i], t) - Val(calls[i], "p_pv_actual", t)
      /\ Res(calls[i])[<<"p_curtailment">>][t + 1] >= 0

\* a returned dispatch that leaves available PV unused
C5_Witness ==
  \E i \in 1..Len(calls) :
    /\ Returned(calls[i])
    /\ \E t \in HoursOf(calls[i]) :
         /\ Res(calls[i])[<<"p_curtailment">>][t + 1] > 0
         /\ Val(calls[i], "p_pv_actual", t) > 0

\* C6: in every returned result and every hour 0 <= p_import <= import limit,
\* 0 <= p_export <= export limit, 0 <= p_pv_actual <= available PV,
\* 0 <= p_load <= max hourly load, and charge, discharge and soc are >= 0
C6_HourlyBounds ==
  \A i \in 1..Len(calls) : Returned(calls[i]) =>
    \A t \in HoursOf(calls[i]) :
      /\ 0 <= Val(calls[i], "p_import", t)
      /\ Val(calls[i], "p_import", t) <= get_max_import(Grid(calls[i].scaling))
      /\ 0 <= Val(calls[i], "p_export", t)
      /\ Val(calls[i], "p_export", t) <= get_max_export(Grid(calls[i].scaling))
      /\ 0 <= Val(calls[i], "p_pv_actual", t)
      /\ Val(calls[i], "p_pv_actual", t) <= availablePV(calls[i], t)
      /\ 0 <= Val(calls[i], "p_load", t)
      /\ Val(calls[i], "p_load", t) <= get_max_load_per_hour(Consumer(calls[i].scaling))
      /\ Val(calls[i], "p_bat_charge", t) >= 0
      /\ Val(calls[i], "p_bat_discharge", t) >= 0
      /\ Val(calls[i], "soc", t) >= 0

\* a returned dispatch that imports at the import limit, below the export limit
C6_Witness ==
  \E i \in 1..Len(calls) :
    /\ Returned(calls[i])
    /\ get_max_import(Grid(calls[i].scaling)) < get_max_export(Grid(calls[i].scaling))
    /\ \E t \in HoursOf(calls[i]) :
         /\ Val(calls[i], "p_import", t) = get_max_import(Grid(calls[i].scaling))
         /\ Val(calls[i], "p_bat_charge", t) > 0

\* C7: after a solve that did not end optimal the call has returned
\* (None, None) and the results and total_profit of the model object are None
C7_AbsentResult ==
  \A i \in 1..Len(calls) : calls[i].exc = "none" /\ calls[i].status # "OPTIMAL" =>
    /\ calls[i].ret.results = NoneV
    /\ calls[i].ret.profit = NoneV
    /\ i = Len(calls) => /\ esm.results = NoneV
                         /\ esm.total_profit = NoneV

\* a solve of an infeasible scenario
C7_Witness ==
  /\ Len(calls) > 0
  /\ calls[Len(calls)].status = "INFEASIBLE"
  /\ calls[Len(calls)].F.P_min > calls[Len(calls)].F.num_hours * calls[Len(calls)].F.P_L_max

\* C8: when the solve of a scenario ends non-optimal, run_all_simulations and
\* the reporting functions go on without raising an exception
C8_NoExceptionOnAbsentResult ==
  (\E i \in 1..Len(calls) : calls[i].exc = "none" /\ calls[i].status # "OPTIMAL") =>
    /\ exc = "none"
    /\ pc # "raised"

\* C9: two solves of the same parameter set, scaling, variant, horizon,
\* vary_tariff and fixed_da use identical tariff and price series and return
\* identical decision values and objective
C9_Determinism ==
  \A i, j \in 1..Len(calls) : calls[i].scaling = calls[j].scaling =>
    /\ calls[i].F = calls[j].F
    /\ calls[i].exc = "none" => /\ calls[i].F.phi_imp = calls[j].F.phi_imp
                                /\ calls[i].F.phi_exp = calls[j].F.phi_exp
                                /\ calls[i].F.da_price = calls[j].F.da_price
    /\ calls[i].ret = calls[j].ret

\* two solves of one scenario with perturbed tariffs, the generator standing
\* at different positions at the two calls
C9_Witness ==
  /\ Len(calls) = 2
  /\ calls[1].scaling = calls[2].scaling
  /\ runner.vary_tariff
  /\ calls[1].rng # calls[2].rng
  /\ calls[1].rng # Seeded(calls[1].rng)
  /\ Returned(calls[2])

\* C10: in every variant the actual_profit of a returned result is the sum
\* over the hours of (price - exportTariff) * export - (price + importTariff) * import
\* on the returned values
C10_ActualProfitIsCashFlow ==
  \A i \in 1..Len(calls) : Returned(calls[i]) =>
    Res(calls[i])[<<"actual_profit">>]
      = SumSeq([k \in 1..calls[i].F.num_hours |->
          MilliPerCenti * (CentiPerDKK * Res(calls[i])[<<"da_price">>][k]
                           - Res(calls[i])[<<"phi_exp">>][k])
            * Val(calls[i], "p_export", k - 1)
          - MilliPerCenti * (CentiPerDKK * Res(calls[i])[<<"da_price">>][k]
                             + Res(calls[i])[<<"phi_imp">>][k])
            * Val(calls[i], "p_import", k - 1)])

\* the series a stored value stands for: a list as it is, a scalar in every hour
SourceSeries(v, num_hours) ==
  IF v.tag = "list" THEN v.val ELSE [t \in 1..num_hours |-> v.val]

\* C11: when a supplied per-hour series has a length other than num_hours the
\* build fails, and every per-hour sequence of a built formulation has
\* length num_hours
C11_LengthMismatchFails ==
  \A i \in 1..Len(calls) :
    /\ (\E v \in {pv_profile_source(DER(calls[i].scaling)),
                   import_tariff_source(Grid(calls[i].scaling)),
                   export_tariff_source(Grid(calls[i].scaling)),
                   energy_price_source(Grid(calls[i].scaling)),
                   reference_profile_source(Consumer(calls[i].scaling))} :
           v.tag = "list" /\ Len(v.val) # calls[i].F.num_hours)
         => calls[i].exc # "none"
    /\ calls[i].exc = "none" =>
         /\ Len(calls[i].F.P_pv) = calls[i].F.num_hours
         /\ Len(calls[i].F.phi_imp) = calls[i].F.num_hours
         /\ Len(calls[i].F.phi_exp) = calls[i].F.num_hours
         /\ Len(calls[i].F.da_price) = calls[i].F.num_hours

\* C12: when the minimum or the maximum total-energy requirement is absent
\* (key missing or value null) the build fails at the accessor
C12_MissingRequirementFails ==
  \A i \in 1..Len(calls) :
    LET prefs == Consumer(calls[i].scaling).usage_preference[1]["load_preferences"][1]
    IN (\E k \in {"min_total_energy_per_day_hour_equivalent",
                   "max_total_energy_per_day_hour_equivalent"} :
          k \notin DOMAIN prefs \/ prefs[k].tag = "none")
       => calls[i].exc = "KeyError"

\* the storage entry of the parameter set is missing, null or an empty list
StorageAbsent(c) ==
  \/ "storage" \notin DOMAIN c.appliance_params
  \/ ~Truthy(c.appliance_params["storage"])

\* C13: with an absent storage entry the accessors return capacity 0, charging
\* and discharging power 0 and both efficiencies 1, under every scaling
C13_AbsentStorageDefaults ==
  \A i \in 1..Len(calls) :
    LET c == Consumer(calls[i].scaling)
    IN StorageAbsent(c) =>
         /\ get_storage_capacity(c) = 0
         /\ get_max_charging_power(c) = 0
         /\ get_max_discharging_power(c) = 0
         /\ get_charging_efficiency(c) = One
         /\ get_discharging_efficiency(c) = One

\* a solve of a parameter set whose storage entry is null or empty, under a
\* scaling that carries a storage capacity multiplier
C13_Witness ==
  \E i \in 1..Len(calls) :
    /\ StorageAbsent(Consumer(calls[i].scaling))
    /\ "storage" \in DOMAIN dataset.appliance_params
    /\ "storage_capacity_scale" \in DOMAIN calls[i].scaling
    /\ Returned(calls[i])
    /\ calls[i].F.P_bat_cap = 0

\* C14: with no reference profile in the input the reference profile is
\* num_hours zeros and the discomfort variants are built and solved
C14_MissingReferenceIsZero ==
  \A i \in 1..Len(calls) :
    (/\ reference_profile_source(Consumer(calls[i].scaling)).tag = "none"
     /\ calls[i].F.question # "question_1a")
    => /\ calls[i].exc = "none"
       /\ calls[i].F.reference_profile = [t \in 1..calls[i].F.num_hours |-> 0]

\* C15: under an empty scaling mapping the import tariff, export tariff, price,
\* PV profile and reference profile accessors return the source values unchanged
C15_EmptyScalingKeepsSource ==
  \A i \in 1..Len(calls) : (calls[i].scaling = EmptyDict /\ calls[i].exc = "none") =>
    LET n == calls[i].F.num_hours
        g == Grid(calls[i].scaling)
        d == DER(calls[i].scaling)
        c == Consumer(calls[i].scaling)
        raw_imp == SourceSeries(import_tariff_source(g), n)
        raw_exp == SourceSeries(export_tariff_source(g), n)
    IN /\ get_import_tariff(g, n) = [t \in 1..Len(raw_imp) |-> DeciPerDKK * raw_imp[t]]
       /\ get_export_tariff(g, n) = [t \in 1..Len(raw_exp) |-> DeciPerDKK * raw_exp[t]]
       /\ get_energy_price(g, n) = SourceSeries(energy_price_source(g), n)
       /\ get_pv_profile(d, n) = SourceSeries(pv_profile_source(d), n)
       /\ reference_profile_source(c).tag # "none" =>
            get_reference_profile(c, n) = SourceSeries(reference_profile_source(c), n)

\* C16: in question_2b every returned hour has
\* p_bat_charge <= max_charging_power_ratio x p_bat_cap and
\* p_bat_discharge <= max_discharging_power_ratio x p_bat_cap
C16_PowerProportionalToCapacity ==
  \A i \in 1..Len(calls) :
    (Returned(calls[i]) /\ calls[i].F.question = "question_2b") =>
      \A t \in HoursOf(calls[i]) :
        /\ Val(calls[i], "p_bat_charge", t)
             <= get_max_charging_power(Consumer(calls[i].scaling))
                * Res(calls[i])[<<"p_bat_cap">>]
        /\ Val(calls[i], "p_bat_discharge", t)
             <= get_max_discharging_power(Consumer(calls[i].scaling))
                * Res(calls[i])[<<"p_bat_cap">>]

\* C17: the storage capacity and the charging and discharging power returned
\* by the accessors are >= 0 for every parameter set and scaling
C17_NonNegativeBatteryBounds ==
  \A i \in 1..Len(calls) :
    LET c == Consumer(calls[i].scaling)
    IN /\ get_storage_capacity(c) >= 0
       /\ get_max_charging_power(c) >= 0
       /\ get_max_discharging_power(c) >= 0

\* C19: in question_2b with a battery price coefficient of 1000 or more the
\* returned p_bat_cap is 0 and the battery neither charges nor discharges
C19_ExpensiveBatteryUnused ==
  \A i \in 1..Len(calls) :
    (/\ Returned(calls[i])
     /\ calls[i].F.question = "question_2b"
     /\ calls[i].F.battery_price_coeff >= 1000)
    => /\ Res(calls[i])[<<"p_bat_cap">>] = 0
       /\ \A t \in HoursOf(calls[i]) :
            /\ Val(calls[i], "p_bat_charge", t) = 0
            /\ Val(calls[i], "p_bat_discharge", t) = 0

\* C20: the result of question_1b, question_1c and question_2b holds
\* reference_profile and discomfort, the discomfort being the sum over the
\* hours of (p_load - reference_profile) squared
C20_DiscomfortReported ==
  \A i \in 1..Len(calls) :
    (Returned(calls[i]) /\ calls[i].F.question # "question_1a") =>
      /\ <<"reference_profile">> \in DOMAIN Res(calls[i])
      /\ <<"discomfort">> \in DOMAIN Res(calls[i])
      /\ Res(calls[i])[<<"discomfort">>]
           = SumSeq([k \in 1..calls[i].F.num_hours |->
               (Val(calls[i], "p_load", k - 1) - Res(calls[i])[<<"reference_profile">>][k])
               * (Val(calls[i], "p_load", k - 1) - Res(calls[i])[<<"reference_profile">>][k])])

\* C18: Scenario A returns an export of the full PV (5) in the second and
\* third hour and of nothing otherwise, and a profit of 9 DKK
C18_ScenarioA ==
  \A i \in 1..Len(calls) :
    (dataset = ScenarioA /\ calls[i].scaling = ScalingA) =>
      /\ Returned(calls[i])
      /\ [t \in 1..HoursA |-> Val(calls[i], "p_export", t - 1)] = <<0, 5, 5, 0>>
      /\ calls[i].ret.profit = Num(9 * MilliPerDKK)

\* C21: a numeric fixed_da (0 included) is the price of every hour and the
\* reported da_price; without one (None) the scaled price series of the grid
\* is used
C21_FixedPriceUsed ==
  \A i \in 1..Len(calls) : calls[i].exc = "none" =>
    /\ calls[i].F.da_price
         = IF runner.fixed_da.tag = "num"
           THEN [t \in 1..calls[i].F.num_hours |-> runner.fixed_da.val]
           ELSE get_energy_price(Grid(calls[i].scaling), calls[i].F.num_hours)
    /\ Returned(calls[i]) =>
         Res(calls[i])[<<"da_price">>] = calls[i].F.da_price

\* C22: soc_normal of a returned result has num_hours entries, each
\* soc[t] / p_bat_cap when the capacity is above 0 and 0 when it is 0, with
\* no division by zero and every entry within [0, 1]
C22_NormalisedSoc ==
  \A i \in 1..Len(calls) : Returned(calls[i]) =>
    LET sn == Res(calls[i])[<<"soc_normal">>]
        cap == Res(calls[i])[<<"p_bat_cap">>]
    IN /\ Len(sn) = calls[i].F.num_hours
       /\ \A t \in HoursOf(calls[i]) :
            /\ sn[t + 1].den > 0
            /\ cap > 0 => sn[t + 1].num * cap = Val(calls[i], "soc", t) * sn[t + 1].den
            /\ cap = 0 => sn[t + 1].num = 0
            /\ 0 <= sn[t + 1].num
            /\ sn[t + 1].num <= sn[t + 1].den

C22_Witness ==
  \E i \in 1..Len(calls) :
    /\ Returned(calls[i])
    /\ Res(calls[i])[<<"p_bat_cap">>] > 0
    /\ \E t \in HoursOf(calls[i]) :
         /\ Val(calls[i], "soc", t) > 0
         /\ Res(calls[i])[<<"soc_normal">>][t + 1].num > 0

\* C23: the constraints of a built model have pairwise distinct names, and
\* the duals of a returned result hold one entry per constraint,
\* 9 x num_hours + 3 in all
C23_DistinctConstraintNames ==
  \A i \in 1..Len(calls) : calls[i].exc = "none" =>
    LET cs == getConstrs(calls[i].F)
    IN /\ Len(cs) = 9 * calls[i].F.num_hours + 3
       /\ \A a, b \in 1..Len(cs) : cs[a] = cs[b] => a = b
       /\ Returned(calls[i]) =>
            /\ Cardinality(DOMAIN Res(calls[i])[<<"duals">>]) = 9 * calls[i].F.num_hours + 3
            /\ \A a \in 1..Len(cs) : cs[a] \in DOMAIN Res(calls[i])[<<"duals">>]

C23_Witness ==
  \E i \in 1..Len(calls) :
    /\ Returned(calls[i])
    /\ calls[i].F.num_hours >= 2
    /\ <<"soc_update", 0>> \in DOMAIN Res(calls[i])[<<"duals">>]
    /\ Cardinality(DOMAIN Res(calls[i])[<<"duals">>]) > 12

\* C24: no hour of a returned dispatch has charge and discharge both above
\* 0, nor import and export both above 0 (tariffs and prices non-negative)
C24_NoOppositeFlows ==
  \A i \in 1..Len(calls) :
    (/\ Returned(calls[i])
     /\ \A t \in 1..calls[i].F.num_hours :
          /\ calls[i].F.phi_imp[t] >= 0
          /\ calls[i].F.phi_exp[t] >= 0
          /\ calls[i].F.da_price[t] >= 0)
    => \A t \in HoursOf(calls[i]) :
         /\ ~(Val(calls[i], "p_bat_charge", t) > 0 /\ Val(calls[i], "p_bat_discharge", t) > 0)
         /\ ~(Val(calls[i], "p_import", t) > 0 /\ Val(calls[i], "p_export", t) > 0)

C24_Witness ==
  \E i \in 1..Len(calls) :
    /\ Returned(calls[i])
    /\ \A t \in 1..calls[i].F.num_hours :
         /\ calls[i].F.phi_imp[t] >= 0
         /\ calls[i].F.phi_exp[t] >= 0
         /\ calls[i].F.da_price[t] >= 0
    /\ \E t, u \in HoursOf(calls[i]) :
         /\ Val(calls[i], "p_bat_charge", t) > 0
         /\ Val(calls[i], "p_bat_discharge", u) > 0
    /\ \E t, u \in HoursOf(calls[i]) :
         /\ Val(calls[i], "p_import", t) > 0
         /\ Val(calls[i], "p_export", u) > 0

\* C28: in every returned dispatch and every hour t, the last included, the
\* discharge up to t over the discharging efficiency is at most soc[0] plus
\* the charge up to t times the charging efficiency
C28_EnergyConservation ==
  \A i \in 1..Len(calls) : Returned(calls[i]) =>
    LET ec == calls[i].F.P_bat_ch_eff
        ed == calls[i].F.P_bat_dis_eff
    IN \A t \in HoursOf(calls[i]) :
         SumSeq([s \in 1..(t + 1) |->
                   Val(calls[i], "p_bat_discharge", s - 1) * ed.den * ec.den])
         <= Val(calls[i], "soc", 0) * ed.num * ec.den
            + SumSeq([s \in 1..(t + 1) |->
                        Val(calls[i], "p_bat_charge", s - 1) * ec.num * ed.num])

\* the flows of hour t (from 0) of a returned result
FlowsOf(c, t) == [n \in VARIABLES_ |-> Val(c, n, t)]

\* C29: exactly in question_2b the capacity is a free non-negative variable,
\* p_bat_cap x battery_price_coeff is subtracted from the objective, the
\* exclusivity bounds are the big-M ones and the import and export limits are
\* capped at 17; under every other identifier the capacity is the constant
\* and none of these applies
C29_VariantSwitch ==
  \A i \in 1..Len(calls) : calls[i].exc = "none" =>
    LET c == calls[i]
        F == calls[i].F
        sizing == F.question = "question_2b"
        nameplate == get_storage_capacity(Consumer(calls[i].scaling))
        down == get_max_import(Grid(calls[i].scaling))
        up == get_max_export(Grid(calls[i].scaling))
    IN /\ F.P_down = IF sizing THEN Min(down, Limit2b) ELSE down
       /\ F.P_up = IF sizing THEN Min(up, Limit2b) ELSE up
       /\ Returned(c) =>
            /\ IF sizing THEN Res(c)[<<"p_bat_cap">>] >= 0
               ELSE Res(c)[<<"p_bat_cap">>] = nameplate
            /\ c.ret.profit.val
                 = SumSeq([t \in 1..F.num_hours |-> ObjHour(F, FlowsOf(c, t - 1), t)])
                   - (IF sizing
                      THEN MilliPerDKK * Res(c)[<<"p_bat_cap">>] * F.battery_price_coeff
                      ELSE 0)
            /\ sizing <=> <<"charge_excl", 0>> \in DOMAIN Res(c)[<<"duals">>]
            /\ sizing <=> <<"discharge_excl", 0>> \in DOMAIN Res(c)[<<"duals">>]
            /\ ~sizing <=> <<"charge_exclusivity", 0>> \in DOMAIN Res(c)[<<"duals">>]
            /\ \A t \in HoursOf(c) :
                 /\ ZDen * Val(c, "p_bat_charge", t)
                      <= (IF sizing THEN big_m ELSE F.P_bat_ch_max) * Val(c, "z", t)
                 /\ ZDen * Val(c, "p_bat_discharge", t)
                      <= (IF sizing THEN big_m ELSE F.P_bat_dis_max)
                         * (ZDen - Val(c, "z", t))

C29_Witness ==
  \E i \in 1..Len(calls) :
    /\ Returned(calls[i])
    /\ calls[i].F.question = "question_2b"
    /\ get_max_export(Grid(calls[i].scaling)) > Limit2b
    /\ calls[i].F.P_up = Limit2b
    /\ Res(calls[i])[<<"p_bat_cap">>]
         # get_storage_capacity(Consumer(calls[i].scaling))

\* C27: run_single_simulation solves the variant named by its question
\* argument, the question the data set was loaded for, whatever question the
\* Runner was built with
C27_VariantOfArgument ==
  \A i \in 1..Len(calls) : calls[i].F.question = calls[i].data

\* the key ends in "_<n>" after a base: its base and the number n
HasSuffix(k) == Len(k) >= 2 /\ Len(k[Len(k)].digits) > 0
BaseOf(k) == SubSeq(k, 1, Len(k) - 1)
IndexOf(k) == int(k[Len(k)].digits)

IsAll(keys) ==
  \/ keys.tag = "str" /\ lower(keys.val) = <<"a", "l", "l">>
  \/ keys.tag = "list" /\ Len(keys.val) = 1 /\ lower(keys.val[1]) = <<"a", "l", "l">>

\* C26: select_scenarios returns every entry of d when keys is the word
\* 'All' in any letter case, as a string or a one-element list, and
\* otherwise only entries of d whose name matches a requested name without
\* regard to case
C26_SelectAll ==
  (pc = "done" /\ arg.fn = "select_scenarios") =>
    IF IsAll(arg.keys) THEN result = arg.d
    ELSE \A i \in 1..Len(result) :
           /\ \E j \in 1..Len(arg.d) : arg.d[j] = result[i]
           /\ \E w \in (IF arg.keys.tag = "str" THEN {arg.keys.val}
                        ELSE {arg.keys.val[n] : n \in 1..Len(arg.keys.val)}) :
                lower(w) = lower(result[i].k)

=============================================================================
